---- MODULE Spec2Model ----
(***************************************************************************)
(* A model of cobra-prompt (src/cobra-prompt.go): the prompt loop started  *)
(* by RunContext, the Executor and completer callbacks handed to the line  *)
(* renderer, the quote-aware tokenizer parseArgsWithQuotes and the         *)
(* suggestion resolver findSuggestions.                                    *)
(*                                                                         *)
(* Text is a sequence of one-character strings, so that prefixes, case     *)
(* folding, splitting and quoting are computed character by character.     *)
(***************************************************************************)
EXTENDS Integers, Sequences, FiniteSets, TLC

VARIABLES
    co,                 \* the CobraPrompt session configuration (struct fields)
    commands,           \* the command nodes registered in the tree under RootCmd
    flags,              \* per declared flag: registered?, current value, Changed bit
    helpFlags,          \* the nodes on which InitDefaultHelpFlag registered "help"
    merged,             \* the nodes whose Flags() had the persistent flags merged in
    disableDefaultCmd,  \* RootCmd.CompletionOptions.DisableDefaultCmd
    doc,                \* the prompt.Document of the last callback: text and cursor
    suggestions,        \* what the last resolution call returned
    resolved,           \* the node the last findSuggestions call resolved to ("" before)
    tokIn,              \* the line handed to the tokenizer
    tokOut,             \* what the tokenizer gave back (or that it panicked)
    pc,                 \* where the loop goroutine is
    proc,               \* "running" or "panicked"
    termios,            \* the terminal's current attributes
    originalTermios,    \* package variable originalTermios
    fd,                 \* package variable fd
    input,              \* the line the Executor was called with
    calls,              \* the calls the current Executor invocation has made
    ctxDone,            \* the context the last "test" branch made is cancelled
    sigc,               \* the channel c the last "test" branch made: "none", "empty", or "signal" (its buffer of one is full)
    stale,              \* the channels of earlier "test" branches, still registered
    watcher,            \* the goroutine of lines 113-118 of the last "test" branch
    worker              \* how many goroutines of lines 119-123 are running

vars == <<co, commands, flags, helpFlags, merged, disableDefaultCmd, doc, suggestions,
          resolved, tokIn, tokOut, pc, proc, termios, originalTermios,
          fd, input, calls, ctxDone, sigc, stale, watcher, worker>>

(***************************************************************************)
(* Bounds of the model.                                                    *)
(***************************************************************************)
\* longest line handed to the tokenizer, in characters
MaxLen == 5
\* most words on a line handed to the resolver or typed at the prompt
MaxWords == 2
\* how far left of the end of the line the cursor may stand
MaxBack == 1
\* most calls of the Executor on the line "test" in one run
MaxTests == 2

(***************************************************************************)
(* Text helpers: Go's strings package on sequences of characters.          *)
(***************************************************************************)
Space == " "
Tab == "\t"
Quote == "\""
Dash == "-"

\* the characters the regexp class \s matches: [\t\n\f\r ]
RegexpSpace == {Space, Tab, "\n", "\f", "\r"}

\* the ASCII characters of unicode.IsSpace, by which strings.Fields splits: those
\* of \s and the vertical tab (text in this model is ASCII)
VerticalTab == ""
UnicodeSpace == RegexpSpace \cup {VerticalTab}

LowerCase == <<"a","b","c","d","e","f","g","h","i","j","k","l","m",
               "n","o","p","q","r","s","t","u","v","w","x","y","z">>
UpperCase == <<"A","B","C","D","E","F","G","H","I","J","K","L","M",
               "N","O","P","Q","R","S","T","U","V","W","X","Y","Z">>

\* the upper-case letter of every lower-case letter
UpperOf ==
    [c \in {LowerCase[i] : i \in 1..26} |->
        UpperCase[CHOOSE i \in 1..26 : LowerCase[i] = c]]

\* strings.ToUpper on one character
ToUpperChar(c) == IF c \in DOMAIN UpperOf THEN UpperOf[c] ELSE c

\* strings.ToUpper
ToUpper(s) == [i \in 1..Len(s) |-> ToUpperChar(s[i])]

\* strings.HasPrefix
HasPrefix(s, p) == Len(p) <= Len(s) /\ SubSeq(s, 1, Len(p)) = p

\* strings.HasSuffix
HasSuffix(s, p) == Len(p) <= Len(s) /\ SubSeq(s, Len(s) - Len(p) + 1, Len(s)) = p

\* strings.Contains for a single character
ContainsChar(s, c) == \E i \in 1..Len(s) : s[i] = c

\* the last index of the maximal run of characters outside ws that starts at i
RECURSIVE RunEnd(_, _, _)
RunEnd(s, i, ws) ==
    IF i < Len(s) /\ s[i + 1] \notin ws THEN RunEnd(s, i + 1, ws) ELSE i

\* the last index of a maximal run of non-whitespace characters that starts at i
NonSpaceEnd(s, i) == RunEnd(s, i, UnicodeSpace)

\* strings.Fields: the maximal runs of non-whitespace characters, from index i on
RECURSIVE FieldsFrom(_, _)
FieldsFrom(s, i) ==
    IF i > Len(s) THEN <<>>
    ELSE IF s[i] \in UnicodeSpace THEN FieldsFrom(s, i + 1)
    ELSE LET e == NonSpaceEnd(s, i)
         IN  <<SubSeq(s, i, e)>> \o FieldsFrom(s, e + 1)

Fields(s) == FieldsFrom(s, 1)

\* the words joined by single spaces
RECURSIVE Join(_)
Join(ws) ==
    IF ws = <<>> THEN <<>>
    ELSE IF Len(ws) = 1 THEN ws[1]
    ELSE ws[1] \o <<Space>> \o Join(Tail(ws))

SetMin(S) == CHOOSE x \in S : \A y \in S : x <= y

(***************************************************************************)
(* The tokenizer, lines 136-158.                                           *)
(***************************************************************************)
\* Where a match of the alternative "[^"]+" that starts at i ends; 0 if there is
\* none: an opening quote, at least one character that is no quote, a closing quote.
QuotedEnd(s, i) ==
    IF s[i] # Quote THEN 0
    ELSE LET js == {j \in (i + 1)..Len(s) : s[j] = Quote}
         IN  IF js = {} THEN 0
             ELSE IF SetMin(js) >= i + 2 THEN SetMin(js) ELSE 0

\* regexp `"[^"]+"|\S+` with FindAllString: the successive leftmost matches, the
\* first alternative preferred where both match.
RECURSIVE FindAllString(_, _)
FindAllString(s, i) ==
    IF i > Len(s) THEN <<>>
    ELSE IF s[i] \in RegexpSpace THEN FindAllString(s, i + 1)
    ELSE LET e == IF QuotedEnd(s, i) # 0 THEN QuotedEnd(s, i)
                  ELSE RunEnd(s, i, RegexpSpace)
         IN  <<SubSeq(s, i, e)>> \o FindAllString(s, e + 1)

\* lines 143-145 on one match: a match that starts and ends with a quote loses its
\* first and last character; match[1 : len(match)-1] of a one-character match is
\* the slice [1:0], on which Go panics.
StripPanics(match) ==
    HasPrefix(match, <<Quote>>) /\ HasSuffix(match, <<Quote>>) /\ Len(match) = 1

StripQuotes(match) ==
    IF HasPrefix(match, <<Quote>>) /\ HasSuffix(match, <<Quote>>)
    THEN SubSeq(match, 2, Len(match) - 1)
    ELSE match

parseArgsWithQuotes(in) ==
    LET matches == FindAllString(in, 1)
    IN  IF \E k \in 1..Len(matches) : StripPanics(matches[k])
        THEN [panic |-> TRUE, args |-> <<>>]
        ELSE [panic |-> FALSE,
              args |-> [k \in 1..Len(matches) |-> StripQuotes(matches[k])]]

\* CobraPrompt.parseArgs: a configured InArgsParser replaces the default; the one
\* modelled is strings.Fields, the parser the field's comment names.
parseArgs(c, in) ==
    IF c.InArgsParser
    THEN [panic |-> FALSE, args |-> Fields(in)]
    ELSE parseArgsWithQuotes(in)

(***************************************************************************)
(* The command tree under RootCmd. Commands() and VisitAll enumerate in    *)
(* name order, so the tree's children and flags are listed by name.        *)
(***************************************************************************)
RootCmd == "root"

\* every command the tree can hold, in name order
CmdOrder == <<"exit", "fail", "food", "get", "help", "secret">>

Nodes == {RootCmd} \cup {CmdOrder[i] : i \in 1..Len(CmdOrder)}

\* the commands the application registered before the prompt is prepared
BaseCommands == {RootCmd, "fail", "food", "get", "secret"}

Parent(n) == IF n = "food" THEN "get" ELSE RootCmd

\* Command.Name()
CmdName(n) ==
    CASE n = "exit"   -> <<"e","x","i","t">>
      [] n = "fail"   -> <<"f","a","i","l">>
      [] n = "food"   -> <<"f","o","o","d">>
      [] n = "get"    -> <<"g","e","t">>
      [] n = "help"   -> <<"h","e","l","p">>
      [] n = "secret" -> <<"s","e","c","r","e","t">>
      [] OTHER        -> <<"a","p","p">>

\* Command.Short
CmdShort(n) ==
    CASE n = "exit"   -> "Exit prompt"
      [] n = "fail"   -> "Always fails"
      [] n = "food"   -> "Get food"
      [] n = "get"    -> "Get something"
      [] n = "help"   -> "Help about any command"
      [] n = "secret" -> "Hidden command"
      [] OTHER        -> "The application"

\* Command.Hidden
CmdHidden(n) == n = "secret"

\* the command's RunE returns an error
CmdFails(n) == n = "fail"

\* Command.Annotations[DynamicSuggestionsAnnotation]
Annotation(n) == IF n = "get" THEN "fruit" ELSE ""

\* Command.Commands(): the registered children of n, by name
Children(cmds, n) ==
    SelectSeq(CmdOrder, LAMBDA c : c \in cmds /\ Parent(c) = n)

\* Command.IsAvailableCommand: not hidden, not the help command (every command of
\* the tree is runnable and none is deprecated)
IsAvailableCommand(c) == ~CmdHidden(c) /\ c # "help"

\* Command.HasAvailableSubCommands
HasAvailableSubCommands(cmds, n) ==
    \E i \in 1..Len(Children(cmds, n)) : IsAvailableCommand(Children(cmds, n)[i])

(***************************************************************************)
(* Flags. "persist" is the flag prepare registers under the name           *)
(* PersistFlagValuesFlag; "verbose" and "name" are the application's.      *)
(***************************************************************************)
PersistFlagValuesFlag ==
    <<"p","e","r","s","i","s","t","-","f","l","a","g","-","v","a","l","u","e","s">>

\* the declared flags, in name order
FlagOrder == <<"name", "persist", "verbose">>

FlagIds == {FlagOrder[i] : i \in 1..Len(FlagOrder)}

FlagName(f) ==
    CASE f = "name"    -> <<"n","a","m","e">>
      [] f = "persist" -> PersistFlagValuesFlag
      [] f = "verbose" -> <<"v","e","r","b","o","s","e">>
      [] OTHER         -> <<"h","e","l","p">>

FlagShorthand(f) ==
    CASE f = "name"    -> <<"n">>
      [] f = "persist" -> <<>>
      [] f = "verbose" -> <<"v">>
      [] OTHER         -> <<"h">>

\* the usage InitDefaultHelpFlag gives the help flag of n: "help for " and the
\* command's name
HelpUsage(n) ==
    CASE n = "exit"   -> "help for exit"
      [] n = "fail"   -> "help for fail"
      [] n = "food"   -> "help for food"
      [] n = "get"    -> "help for get"
      [] n = "help"   -> "help for help"
      [] n = "secret" -> "help for secret"
      [] OTHER        -> "help for app"

\* Flag.Usage of flag f in the flag set of command n
FlagUsage(f, n) ==
    CASE f = "name"    -> "Name to use"
      [] f = "persist" -> "Persist last given value for flags"
      [] f = "verbose" -> "Verbose output"
      [] OTHER         -> HelpUsage(n)

FlagHidden(f) == f = "name"

\* the flag is boolean: it has a NoOptDefVal and its value parses as a boolean
FlagIsBool(f) == f # "name"

FlagDefValue(f) == IF f = "name" THEN "" ELSE "false"

\* a value the user gave the flag on an executed command line
FlagUserValue(f) == IF f = "name" THEN "bob" ELSE "true"

\* the command that declares the flag, and whether it declares it persistent
FlagOwner(f) == IF f = "name" THEN "get" ELSE RootCmd
FlagPersistent(f) == f # "name"

\* pflag's Value.Set: a boolean flag assigns what strconv.ParseBool returns for its
\* argument, which is false when the argument does not parse; a string flag takes
\* the argument as it is
ValueSet(f, cur, str) ==
    IF ~FlagIsBool(f) THEN str
    ELSE IF str \in {"1", "t", "T", "TRUE", "true", "True"} THEN "true"
    ELSE "false"

\* Command.LocalFlags(): the flags n declares, and its default help flag once
\* registered; "help" sorts before the declared names
LocalFlags(fl, hf, n) ==
    (IF n \in hf THEN <<"help">> ELSE <<>>)
        \o SelectSeq(FlagOrder, LAMBDA f : fl[f].present /\ FlagOwner(f) = n)

\* Command.InheritedFlags(): the persistent flags of n's ancestors
InheritedFlags(fl, n) ==
    IF n = RootCmd THEN <<>>
    ELSE SelectSeq(FlagOrder, LAMBDA f : fl[f].present /\ FlagPersistent(f)
                                         /\ FlagOwner(f) = RootCmd)

\* every flag of n after its persistent flags are merged
AllFlags(fl, hf, n) == LocalFlags(fl, hf, n) \o InheritedFlags(fl, n)

\* command.Flags().GetBool(PersistFlagValuesFlag). Flags() is the command's own
\* flag set: it holds the persistent flags (the command's and its ancestors') only
\* once cobra merged them in, which stripFlags, argsMinusFirstX, LocalFlags,
\* InheritedFlags and InitDefaultHelpFlag do. GetBool fails on a flag the set does
\* not hold, and the error is dropped: false.
GetBoolPersist(fl, mg, n) ==
    /\ n \in mg
    /\ fl["persist"].present
    /\ fl["persist"].value = "true"

(***************************************************************************)
(* Command.Find, called at line 190: cobra's traversal to the deepest      *)
(* command whose name path the arguments spell, flags stripped.            *)
(***************************************************************************)
\* hasNoOptDefVal / shortHasNoOptDefVal: the named flag of n exists and is boolean
hasNoOptDefVal(fl, hf, n, name) ==
    \E i \in 1..Len(AllFlags(fl, hf, n)) :
        /\ FlagName(AllFlags(fl, hf, n)[i]) = name
        /\ FlagIsBool(AllFlags(fl, hf, n)[i])

shortHasNoOptDefVal(fl, hf, n, sh) ==
    \E i \in 1..Len(AllFlags(fl, hf, n)) :
        /\ FlagShorthand(AllFlags(fl, hf, n)[i]) = sh
        /\ FlagIsBool(AllFlags(fl, hf, n)[i])

\* the token is a flag that takes the next token as its value
FlagTakesArg(fl, hf, n, s) ==
    \/ /\ HasPrefix(s, <<Dash, Dash>>)
       /\ ~ContainsChar(s, "=")
       /\ ~hasNoOptDefVal(fl, hf, n, SubSeq(s, 3, Len(s)))
    \/ /\ HasPrefix(s, <<Dash>>)
       /\ ~ContainsChar(s, "=")
       /\ Len(s) = 2
       /\ ~shortHasNoOptDefVal(fl, hf, n, SubSeq(s, 2, Len(s)))

\* stripFlags: the arguments that are neither flags nor flag values
RECURSIVE stripFlags(_, _, _, _)
stripFlags(fl, hf, n, args) ==
    IF args = <<>> THEN <<>>
    ELSE LET s == Head(args)
             rest == Tail(args)
         IN  IF s = <<Dash, Dash>> THEN <<>>
             ELSE IF FlagTakesArg(fl, hf, n, s)
                  THEN IF Len(rest) <= 1 THEN <<>>
                       ELSE stripFlags(fl, hf, n, Tail(rest))
             ELSE IF s # <<>> /\ ~HasPrefix(s, <<Dash>>)
                  THEN <<s>> \o stripFlags(fl, hf, n, rest)
             ELSE stripFlags(fl, hf, n, rest)

\* argsMinusFirstX: args without the first x that is no flag value, from pos on
RECURSIVE argsMinusFirstXFrom(_, _, _, _, _, _)
argsMinusFirstXFrom(fl, hf, n, args, x, pos) ==
    IF pos > Len(args) THEN args
    ELSE LET s == args[pos]
         IN  IF s = <<Dash, Dash>> THEN args
             ELSE IF FlagTakesArg(fl, hf, n, s)
                  THEN argsMinusFirstXFrom(fl, hf, n, args, x, pos + 2)
             ELSE IF ~HasPrefix(s, <<Dash>>) /\ s = x
                  THEN SubSeq(args, 1, pos - 1) \o SubSeq(args, pos + 1, Len(args))
             ELSE argsMinusFirstXFrom(fl, hf, n, args, x, pos + 1)

\* Command.findNext: the child of n named so, "" if there is none
findNext(cmds, n, name) ==
    IF \E c \in cmds : c # RootCmd /\ Parent(c) = n /\ CmdName(c) = name
    THEN CHOOSE c \in cmds : c # RootCmd /\ Parent(c) = n /\ CmdName(c) = name
    ELSE ""

\* innerfind: the command found and the arguments left
RECURSIVE innerfind(_, _, _, _, _)
innerfind(cmds, fl, hf, n, args) ==
    LET a == stripFlags(fl, hf, n, args)
    IN  IF a = <<>> THEN [found |-> n, args |-> args]
        ELSE IF findNext(cmds, n, a[1]) # ""
             THEN innerfind(cmds, fl, hf, findNext(cmds, n, a[1]),
                            argsMinusFirstXFrom(fl, hf, n, args, a[1], 1))
        ELSE [found |-> n, args |-> args]

\* the commands innerfind merges the persistent flags of: stripFlags and
\* argsMinusFirstX merge them when the arguments they are given are not empty
RECURSIVE innerfindMerged(_, _, _, _, _)
innerfindMerged(cmds, fl, hf, n, args) ==
    LET a == stripFlags(fl, hf, n, args)
    IN  (IF args # <<>> THEN {n} ELSE {})
        \cup (IF a # <<>> /\ findNext(cmds, n, a[1]) # ""
              THEN innerfindMerged(cmds, fl, hf, findNext(cmds, n, a[1]),
                                   argsMinusFirstXFrom(fl, hf, n, args, a[1], 1))
              ELSE {})

\* Command.Find with the legacy argument validation: an error when the root has
\* subcommands and a non-flag argument is left over
Find(cmds, fl, hf, args) ==
    LET r == innerfind(cmds, fl, hf, RootCmd, args)
    IN  [found |-> r.found,
         err |-> /\ Len(Children(cmds, r.found)) > 0
                 /\ r.found = RootCmd
                 /\ Len(stripFlags(fl, hf, r.found, r.args)) > 0,
         merged |-> innerfindMerged(cmds, fl, hf, RootCmd, args)]

(***************************************************************************)
(* prompt.Document and prompt.FilterHasPrefix, as the resolver uses them.  *)
(***************************************************************************)
\* Document.CurrentLine: the text has a single line
CurrentLine(d) == d.text

\* Document.TextBeforeCursor
TextBeforeCursor(d) == SubSeq(d.text, 1, d.cursor)

\* Document.GetWordBeforeCursor: the text before the cursor, from its last space on
GetWordBeforeCursor(d) ==
    LET x == TextBeforeCursor(d)
        sp == {i \in 1..Len(x) : x[i] = Space}
    IN  IF sp = {} THEN x
        ELSE SubSeq(x, (CHOOSE i \in sp : \A j \in sp : j <= i) + 1, Len(x))

\* a filter that keeps every suggestion, whatever the fragment
FilterNothing(sugs, sub, ignoreCase) == sugs

\* prompt.FilterHasPrefix: every suggestion when sub is empty, else those whose
\* text starts with sub, both upper-cased when ignoreCase
FilterHasPrefix(sugs, sub, ignoreCase) ==
    IF sub = <<>> THEN sugs
    ELSE SelectSeq(sugs, LAMBDA g :
            IF ignoreCase THEN HasPrefix(ToUpper(g.Text), ToUpper(sub))
            ELSE HasPrefix(g.Text, sub))

\* the configured DynamicSuggestionsFunc: the suggestions of the annotation's value
DynamicSuggestionsFunc(annotation, d) ==
    IF annotation = "fruit"
    THEN << [Text |-> <<"a","p","p","l","e">>, Description |-> "fruit"],
            [Text |-> <<"g","r","a","p","e">>, Description |-> "fruit"] >>
    ELSE <<>>

\* the configured SuggestionFilter: one that lets every suggestion through
SuggestionFilter(sugs, d) == sugs

(***************************************************************************)
(* findSuggestions, lines 186-234.                                         *)
(***************************************************************************)
\* lines 187-192: the command found, or RootCmd when Find reports an error
ResolveCommand(cmds, fl, hf, d) ==
    LET r == Find(cmds, fl, hf, Fields(CurrentLine(d)))
    IN  IF ~r.err THEN r.found ELSE RootCmd

\* lines 197-199 of addFlags on one flag: a changed flag is set to its default
\* value unless persistFlagValues; its Changed bit is not written
ResetFlag(fl, f, persistFlagValues) ==
    IF fl[f].changed /\ ~persistFlagValues
    THEN [fl[f] EXCEPT !.value = ValueSet(f, fl[f].value, FlagDefValue(f))]
    ELSE fl[f]

\* a flag suggestion that offers the long form whatever the fragment
FlagSuggestionAlways(c, n, f, word) ==
    IF FlagHidden(f) /\ ~c.ShowHiddenFlags THEN <<>>
    ELSE << [Text |-> <<Dash, Dash>> \o FlagName(f), Description |-> FlagUsage(f, n)] >>

\* lines 200-207 of addFlags on one flag: what it appends to the suggestions
FlagSuggestion(c, n, f, word) ==
    IF FlagHidden(f) /\ ~c.ShowHiddenFlags THEN <<>>
    ELSE IF HasPrefix(word, <<Dash, Dash>>)
         THEN << [Text |-> <<Dash, Dash>> \o FlagName(f), Description |-> FlagUsage(f, n)] >>
    ELSE IF HasPrefix(word, <<Dash>>) /\ FlagShorthand(f) # <<>>
         THEN << [Text |-> <<Dash>> \o FlagShorthand(f), Description |-> FlagUsage(f, n)] >>
    ELSE <<>>

\* VisitAll(addFlags) over a flag list of command n: the suggestions appended
RECURSIVE FlagSuggestions(_, _, _, _)
FlagSuggestions(c, n, fs, word) ==
    IF fs = <<>> THEN <<>>
    ELSE FlagSuggestion(c, n, Head(fs), word) \o FlagSuggestions(c, n, Tail(fs), word)

\* the body of the loop of lines 214-221 on one child: what it appends
CommandSuggestion(c, child) ==
    IF ~CmdHidden(child) /\ ~c.ShowHiddenCommands
    THEN << [Text |-> CmdName(child), Description |-> CmdShort(child)] >>
    ELSE <<>>

RECURSIVE CommandSuggestions(_, _)
CommandSuggestions(c, cs) ==
    IF cs = <<>> THEN <<>>
    ELSE CommandSuggestion(c, Head(cs)) \o CommandSuggestions(c, Tail(cs))

\* lines 194-227: the suggestions accumulated before the filter, in the order
\* local flags, inherited flags, commands, dynamic suggestions
Accumulated(c, cmds, fl, hf, d) ==
    LET command == ResolveCommand(cmds, fl, hf, d)
        word == GetWordBeforeCursor(d)
    IN  FlagSuggestions(c, command, LocalFlags(fl, hf, command), word)
        \o FlagSuggestions(c, command, InheritedFlags(fl, command), word)
        \o (IF HasAvailableSubCommands(cmds, command)
            THEN CommandSuggestions(c, Children(cmds, command))
            ELSE <<>>)
        \o (IF c.DynamicSuggestionsFunc /\ Annotation(command) # ""
            THEN DynamicSuggestionsFunc(Annotation(command), d)
            ELSE <<>>)

\* findSuggestions: the list returned, the flags, the help flags and the merged
\* flag sets it leaves, and the command it resolved to
findSuggestions(c, cmds, fl, hf, mg, d) ==
    LET command == ResolveCommand(cmds, fl, hf, d)
        found == Find(cmds, fl, hf, Fields(CurrentLine(d))).merged
        persistFlagValues == GetBoolPersist(fl, mg \cup found, command)
        helped == IF c.ShowHelpCommandAndFlags /\ HasAvailableSubCommands(cmds, command)
                  THEN {Children(cmds, command)[i] :
                           i \in 1..Len(Children(cmds, command))}
                  ELSE {}
        visited == {f \in FlagIds :
                      \E i \in 1..Len(AllFlags(fl, hf, command)) :
                          AllFlags(fl, hf, command)[i] = f}
        acc == Accumulated(c, cmds, fl, hf, d)
    IN  [suggestions |->
             IF c.SuggestionFilter THEN SuggestionFilter(acc, d)
             ELSE FilterHasPrefix(acc, GetWordBeforeCursor(d), TRUE),
         flags |-> [f \in FlagIds |->
                      IF f \in visited THEN ResetFlag(fl, f, persistFlagValues)
                      ELSE fl[f]],
         helpFlags |-> hf \cup helped,
         merged |-> mg \cup found \cup {command} \cup helped,
         command |-> command]

\* completer, lines 131-134: the prefix filter over an empty list; the session
\* and the command tree are not consulted
completer(c, cmds, fl, hf, d) ==
    FilterHasPrefix(<<>>, GetWordBeforeCursor(d), TRUE)

(***************************************************************************)
(* CobraPrompt.prepare, lines 160-184.                                     *)
(***************************************************************************)
\* the commands after prepare: InitDefaultHelpCmd adds "help" when the root has
\* subcommands, AddDefaultExitCommand adds "exit"
PreparedCommands(c, cmds) ==
    cmds \cup (IF c.ShowHelpCommandAndFlags /\ Len(Children(cmds, RootCmd)) > 0
               THEN {"help"} ELSE {})
         \cup (IF c.AddDefaultExitCommand THEN {"exit"} ELSE {})

\* the flags after prepare: PersistFlagValues registers the persistence flag on
\* the root's persistent flags, false by default
PreparedFlags(c, fl) ==
    IF c.PersistFlagValues
    THEN [fl EXCEPT !["persist"] =
             [present |-> TRUE, value |-> FlagDefValue("persist"), changed |-> FALSE]]
    ELSE fl

(***************************************************************************)
(* Session configurations and inputs.                                      *)
(***************************************************************************)
ConfigFields == {"RootCmd", "DynamicSuggestionsFunc", "PersistFlagValues",
                 "ShowHelpCommandAndFlags", "DisableCompletionCommand",
                 "ShowHiddenCommands", "ShowHiddenFlags", "AddDefaultExitCommand",
                 "OnErrorFunc", "InArgsParser", "SuggestionFilter"}

\* the configuration whose set fields (non-nil, or true) are those of S
Config(S) == [f \in ConfigFields |-> f \in S]

\* the fields findSuggestions and the tree it walks depend on
ResolveFields == {"DynamicSuggestionsFunc", "PersistFlagValues",
                  "ShowHelpCommandAndFlags", "ShowHiddenCommands",
                  "ShowHiddenFlags", "SuggestionFilter"}

\* the fields RunContext, prepare and the Executor's error handling depend on
RunFields == {"RootCmd", "PersistFlagValues", "ShowHelpCommandAndFlags",
              "DisableCompletionCommand", "AddDefaultExitCommand", "OnErrorFunc"}

\* a flag as the application declares it, and after the user gave it a value
FlagFresh(f) == [present |-> TRUE, value |-> FlagDefValue(f), changed |-> FALSE]
FlagGiven(f) == [present |-> TRUE, value |-> FlagUserValue(f), changed |-> TRUE]
FlagAbsent(f) == [present |-> FALSE, value |-> FlagDefValue(f), changed |-> FALSE]

\* the flags before prepare: the application's, at their defaults
BaseFlags == [f \in FlagIds |-> IF f = "persist" THEN FlagAbsent(f) ELSE FlagFresh(f)]

\* the flag states a resolution call can meet under configuration c: the
\* application's flags fresh, or given values by an executed command line; the
\* persistence flag, when prepare registered it, fresh or given (true)
FlagStates(c) ==
    {[f \in FlagIds |->
        IF f = "persist"
        THEN (IF ~c.PersistFlagValues THEN FlagAbsent(f)
              ELSE IF p THEN FlagGiven(f) ELSE FlagFresh(f))
        ELSE (IF g THEN FlagGiven(f) ELSE FlagFresh(f))] :
     g \in BOOLEAN,
     p \in (IF c.PersistFlagValues THEN BOOLEAN ELSE {FALSE})}

\* the commands whose flag sets hold the merged persistent flags when a resolution
\* call starts: none in a fresh tree; the root once a line given at the prompt
\* was parsed by it; every command once each was visited
MergedStates(cmds) == {{}, {RootCmd}, cmds}

\* the words of the lines handed to the resolver
ResolveWords == { <<>>,
                  <<"g","e","t">>,
                  <<"G">>,
                  <<Dash>>,
                  <<Dash, Dash, "V">>,
                  <<"g","e","t", Tab, Dash, Dash, "V">> }

\* the words typed at the prompt
PromptWords == { <<"t","e","s","t">>,
                 <<"f","a","i","l">>,
                 <<"n","o","p","e">> }

\* the sequences of at most n elements of S
SeqsUpTo(S, n) == UNION {[1..k -> S] : k \in 0..n}

\* a document: the text and the cursor's offset in it
Doc(text, back) == [text |-> text, cursor |-> Len(text) - back]

EmptyDoc == Doc(<<>>, 0)

\* the documents over the words of W: at most MaxWords words joined by spaces
\* (an empty word gives a leading, trailing or doubled space), the cursor at
\* most MaxBack characters left of the end
Docs(W) ==
    {d \in {Doc(Join(ws), b) : ws \in SeqsUpTo(W, MaxWords), b \in 0..MaxBack} :
        d.cursor >= 0}

\* the characters of the lines handed to the tokenizer
TokAlphabet == {"a", Space, Tab, Quote}

\* the attributes the terminal can have when the prompt starts
BootModes == {"canonical", "canonical-noecho"}

\* the line that selects the Executor's long-running branch, line 108
TestInput == <<"t","e","s","t">>

(***************************************************************************)
(* The tokenizer applied to a line.                                        *)
(***************************************************************************)
\* the variables of the prompt loop, which the function harnesses leave alone
loopVars == <<pc, proc, termios, originalTermios, fd, input, calls, ctxDone,
              sigc, stale, watcher, worker>>

LoopIdle(at) ==
    /\ pc = at
    /\ proc = "running"
    /\ termios \in BootModes
    /\ originalTermios = "unset"
    /\ fd = "unset"
    /\ input = <<>>
    /\ calls = {}
    /\ ctxDone = FALSE
    /\ sigc = "none"
    /\ stale = <<>>
    /\ watcher = "none"
    /\ worker = 0

InitTok ==
    /\ co \in {Config(S) : S \in SUBSET {"InArgsParser"}}
    /\ commands = BaseCommands
    /\ flags = BaseFlags
    /\ helpFlags = {}
    /\ merged = {}
    /\ disableDefaultCmd = FALSE
    /\ doc = EmptyDoc
    /\ suggestions = <<>>
    /\ resolved = ""
    /\ tokIn \in SeqsUpTo(TokAlphabet, MaxLen)
    /\ tokOut = [called |-> FALSE, panic |-> FALSE, args |-> <<>>]
    /\ LoopIdle("tokenizer")
    /\ termios = "canonical"

\* co.parseArgs(tokIn)
Tokenize ==
    /\ pc = "tokenizer"
    /\ tokOut' = [called |-> TRUE,
                  panic |-> parseArgs(co, tokIn).panic,
                  args |-> parseArgs(co, tokIn).args]
    /\ UNCHANGED <<co, commands, flags, helpFlags, merged, disableDefaultCmd, doc,
                   suggestions, resolved, tokIn>>
    /\ UNCHANGED loopVars

NextTok == Tokenize

SpecTok == InitTok /\ [][NextTok]_vars

(***************************************************************************)
(* findSuggestions applied to a prepared tree and a document.              *)
(***************************************************************************)
InitResolve ==
    /\ co \in {Config(S \cup {"RootCmd"}) : S \in SUBSET ResolveFields}
    /\ commands = PreparedCommands(co, BaseCommands)
    /\ merged \in MergedStates(commands)
    /\ flags \in (IF merged = {} THEN {PreparedFlags(co, BaseFlags)} ELSE FlagStates(co))
    /\ helpFlags \in (IF co.ShowHelpCommandAndFlags /\ merged = commands
                      THEN {{}, commands \ {RootCmd}} ELSE {{}})
    /\ disableDefaultCmd = FALSE
    /\ doc \in Docs(ResolveWords)
    /\ suggestions = <<>>
    /\ resolved = ""
    /\ tokIn = <<>>
    /\ tokOut = [called |-> FALSE, panic |-> FALSE, args |-> <<>>]
    /\ LoopIdle("resolver")
    /\ termios = "canonical"

\* findSuggestions(co, doc)
Resolve ==
    /\ pc = "resolver"
    /\ \E r \in {findSuggestions(co, commands, flags, helpFlags, merged, doc)} :
           /\ suggestions' = r.suggestions
           /\ flags' = r.flags
           /\ helpFlags' = r.helpFlags
           /\ merged' = r.merged
           /\ resolved' = r.command
    /\ UNCHANGED <<co, commands, disableDefaultCmd, doc, tokIn, tokOut>>
    /\ UNCHANGED loopVars

NextResolve == Resolve

SpecResolve == InitResolve /\ [][NextResolve]_vars

(***************************************************************************)
(* The prompt loop: RunContext, then the renderer calling completer on     *)
(* every keystroke and Executor on every submitted line.                   *)
(***************************************************************************)
treeVars == <<commands, flags, helpFlags, merged, disableDefaultCmd>>
harnessVars == <<resolved, tokIn, tokOut>>
branchVars == <<ctxDone, sigc, stale, watcher, worker>>

Init ==
    /\ co \in {Config(S) : S \in SUBSET RunFields}
    /\ commands = BaseCommands
    /\ flags = BaseFlags
    /\ helpFlags = {}
    /\ merged = {}
    /\ disableDefaultCmd = FALSE
    /\ doc = EmptyDoc
    /\ suggestions = <<>>
    /\ resolved = ""
    /\ tokIn = <<>>
    /\ tokOut = [called |-> FALSE, panic |-> FALSE, args |-> <<>>]
    /\ LoopIdle("start")

\* a restore that leaves the terminal's attributes as they are
TcsetattrKeep(cur, attrs) == cur

\* termios.Tcsetattr(fd, TCSANOW, attrs) on success: the terminal takes attrs
Tcsetattr(cur, attrs) == attrs

\* a cancel that leaves the context as it is
cancelNothing(done) == done

\* the context's cancel function: the context is done
cancel(done) == TRUE

\* what the renderer does around its callbacks: it edits in raw mode, and shows
\* the completer's suggestions for the document it holds
RendererSetup == "raw"

\* RunContext, lines 77-100: panic on a nil RootCmd; prepare; open the terminal and
\* take its attributes, panic when either fails; start the renderer's loop
RunContext ==
    /\ pc = "start"
    /\ proc = "running"
    /\ IF ~co.RootCmd
       THEN /\ proc' = "panicked"
            /\ UNCHANGED <<commands, flags, disableDefaultCmd, fd, originalTermios,
                           termios, pc, suggestions>>
       ELSE /\ commands' = PreparedCommands(co, commands)
            /\ flags' = PreparedFlags(co, flags)
            /\ disableDefaultCmd' = (disableDefaultCmd \/ co.DisableCompletionCommand)
            /\ \E outcome \in {"ok", "open fails", "tcgetattr fails"} :
                  CASE outcome = "open fails" ->
                          /\ proc' = "panicked"
                          /\ fd' = "invalid"
                          /\ UNCHANGED <<originalTermios, termios, pc, suggestions>>
                    [] outcome = "tcgetattr fails" ->
                          /\ proc' = "panicked"
                          /\ fd' = "tty"
                          /\ originalTermios' = "nil"
                          /\ UNCHANGED <<termios, pc, suggestions>>
                    [] OTHER ->
                          /\ proc' = "running"
                          /\ fd' = "tty"
                          /\ originalTermios' = termios
                          /\ termios' = RendererSetup
                          /\ suggestions' = completer(co, commands', flags', helpFlags, doc)
                          /\ pc' = "loop"
    /\ UNCHANGED <<co, helpFlags, merged, doc, input, calls>>
    /\ UNCHANGED branchVars
    /\ UNCHANGED harnessVars

\* a keystroke: the user types a word, or a space after a word, and the renderer
\* calls completer with the new document
Keystroke ==
    /\ pc = "loop"
    /\ proc = "running"
    /\ \E chunk \in PromptWords \cup {<<Space>>} :
          /\ IF chunk = <<Space>>
             THEN doc.text # <<>> /\ ~HasSuffix(doc.text, <<Space>>)
             ELSE IF doc.text = <<>> THEN TRUE ELSE HasSuffix(doc.text, <<Space>>)
          /\ Len(Fields(doc.text \o chunk)) + (IF chunk = <<Space>> THEN 1 ELSE 0)
                <= MaxWords
          /\ doc' = Doc(doc.text \o chunk, 0)
          /\ suggestions' = completer(co, commands, flags, helpFlags, doc')
    /\ UNCHANGED <<co, pc, proc, termios, originalTermios, fd, input, calls>>
    /\ UNCHANGED treeVars
    /\ UNCHANGED branchVars
    /\ UNCHANGED harnessVars

\* the user submits the line: the renderer calls Executor with it. What earlier
\* calls left behind stays: their worker goroutines, their registered channels
Submit ==
    /\ pc = "loop"
    /\ proc = "running"
    /\ doc.text = TestInput => worker < MaxTests
    /\ input' = doc.text
    /\ calls' = {}
    /\ pc' = "exec"
    /\ UNCHANGED <<co, doc, suggestions, proc, termios, originalTermios, fd>>
    /\ UNCHANGED treeVars
    /\ UNCHANGED branchVars
    /\ UNCHANGED harnessVars

\* Executor returns: the renderer takes a fresh buffer, shows its suggestions and
\* re-enters raw mode
ReturnToLoop ==
    /\ pc' = "loop"
    /\ doc' = EmptyDoc
    /\ suggestions' = completer(co, commands, flags, helpFlags, EmptyDoc)
    /\ termios' = RendererSetup

\* Executor, lines 103-106: restore the terminal's original attributes, panic
\* when that fails
ExecRestore ==
    /\ pc = "exec"
    /\ proc = "running"
    /\ \E ok \in BOOLEAN :
          IF ok
          THEN /\ termios' = Tcsetattr(termios, originalTermios)
               /\ calls' = calls \cup {"Tcsetattr"}
               /\ pc' = "body"
               /\ proc' = proc
          ELSE /\ proc' = "panicked"
               /\ UNCHANGED <<termios, calls, pc>>
    /\ UNCHANGED <<co, doc, suggestions, originalTermios, fd, input>>
    /\ UNCHANGED treeVars
    /\ UNCHANGED branchVars
    /\ UNCHANGED harnessVars

\* Executor, lines 108-111 and 129: on "test" make a new context and a new signal
\* channel and register it for os.Interrupt, the channel of an earlier call
\* staying registered (there is no signal.Stop); on any other line return
ExecBranch ==
    /\ pc = "body"
    /\ proc = "running"
    /\ IF input = TestInput
       THEN /\ ctxDone' = FALSE
            /\ stale' = IF sigc = "none" THEN stale ELSE Append(stale, sigc)
            /\ sigc' = "empty"
            /\ calls' = calls \cup {"Notify"}
            /\ pc' = "spawn"
            /\ UNCHANGED <<doc, suggestions, termios>>
       ELSE /\ ReturnToLoop
            /\ UNCHANGED <<ctxDone, stale, sigc, calls>>
    /\ UNCHANGED <<co, proc, originalTermios, fd, input, watcher, worker>>
    /\ UNCHANGED treeVars
    /\ UNCHANGED harnessVars

\* Executor, lines 113-123: start the two goroutines; the workers of earlier
\* calls are still running
ExecSpawn ==
    /\ pc = "spawn"
    /\ proc = "running"
    /\ watcher' = "select"
    /\ worker' = worker + 1
    /\ pc' = "wait"
    /\ UNCHANGED <<co, doc, suggestions, proc, termios, originalTermios, fd, input,
                   calls, ctxDone, sigc, stale>>
    /\ UNCHANGED treeVars
    /\ UNCHANGED harnessVars

\* Executor, lines 124-127: return once the context is done
ExecWait ==
    /\ pc = "wait"
    /\ proc = "running"
    /\ ctxDone
    /\ ReturnToLoop
    /\ UNCHANGED <<co, proc, originalTermios, fd, input, calls>>
    /\ UNCHANGED treeVars
    /\ UNCHANGED branchVars
    /\ UNCHANGED harnessVars

\* the goroutine of lines 113-118: receive a signal from c, then cancel
Watcher ==
    /\ watcher = "select"
    /\ proc = "running"
    /\ sigc = "signal"
    /\ sigc' = "empty"
    /\ ctxDone' = cancel(ctxDone)
    /\ calls' = calls \cup {"cancel"}
    /\ watcher' = "done"
    /\ UNCHANGED <<co, doc, suggestions, pc, proc, termios, originalTermios, fd,
                   input, stale, worker>>
    /\ UNCHANGED treeVars
    /\ UNCHANGED harnessVars

\* a goroutine of lines 119-123: one turn of the empty loop; the loop has no
\* exit, so the deferred cancel is never reached and the goroutine never ends
Worker ==
    /\ worker > 0
    /\ proc = "running"
    /\ worker' = worker
    /\ UNCHANGED <<co, doc, suggestions, pc, proc, termios, originalTermios, fd,
                   input, calls, ctxDone, sigc, stale, watcher>>
    /\ UNCHANGED treeVars
    /\ UNCHANGED harnessVars

\* an interrupt signal arrives while the body of an Executor call runs (the
\* restored terminal generates it) and a channel is registered: the runtime puts
\* it on every registered channel, the buffer of each holding one signal, and
\* drops it where the buffer is full
Interrupt ==
    /\ pc \in {"body", "spawn", "wait"}
    /\ proc = "running"
    /\ sigc \in {"empty", "signal"}
    /\ sigc' = "signal"
    /\ stale' = [i \in 1..Len(stale) |-> "signal"]
    /\ UNCHANGED <<co, doc, suggestions, pc, proc, termios, originalTermios, fd,
                   input, calls, ctxDone, watcher, worker>>
    /\ UNCHANGED treeVars
    /\ UNCHANGED harnessVars

Next ==
    \/ RunContext
    \/ Keystroke
    \/ Submit
    \/ ExecRestore
    \/ ExecBranch
    \/ ExecSpawn
    \/ ExecWait
    \/ Watcher
    \/ Worker
    \/ Interrupt

Spec == Init /\ [][Next]_vars

\* the Go scheduler runs every goroutine that can take a step
FairSpec ==
    /\ Init
    /\ [][Next]_vars
    /\ WF_vars(ExecSpawn)
    /\ WF_vars(ExecWait)
    /\ WF_vars(Watcher)

(***************************************************************************)
(* Properties of findSuggestions, checked under SpecResolve.               *)
(***************************************************************************)
\* text starts with frag when letter case is disregarded
StartsWithFold(text, frag) ==
    /\ Len(frag) <= Len(text)
    /\ \A i \in 1..Len(frag) : ToUpperChar(text[i]) = ToUpperChar(frag[i])

\* a findSuggestions call has returned
Resolved == resolved # ""

\* the word fragment before the cursor of the document resolved
Fragment == GetWordBeforeCursor(doc)

\* the persistence flag is registered and true
PersistOn == flags["persist"].present /\ flags["persist"].value = "true"

\* the declared flags among the local and inherited flags of n
FlagsOfNode(n) ==
    {f \in FlagIds : \E i \in 1..Len(AllFlags(flags, helpFlags, n)) :
                        AllFlags(flags, helpFlags, n)[i] = f}

\* the flags of n that may be shown: not hidden, or ShowHiddenFlags
VisibleFlagsOfNode(n) ==
    {f \in {AllFlags(flags, helpFlags, n)[i] : i \in 1..Len(AllFlags(flags, helpFlags, n))} :
        ~FlagHidden(f) \/ co.ShowHiddenFlags}

LongForm(f) ==
    [Text |-> <<Dash, Dash>> \o FlagName(f), Description |-> FlagUsage(f, resolved)]
ShortForm(f) ==
    [Text |-> <<Dash>> \o FlagShorthand(f), Description |-> FlagUsage(f, resolved)]

Returned == {suggestions[i] : i \in 1..Len(suggestions)}

\* C1: with no custom SuggestionFilter, every suggestion findSuggestions returns
\* (flag, command or dynamic) has a text that starts with the word fragment before
\* the cursor, letter case disregarded, and an empty fragment retains every
\* accumulated suggestion.
C1_PrefixFiltered ==
    (Resolved /\ ~co.SuggestionFilter) =>
        /\ \A i \in 1..Len(suggestions) : StartsWithFold(suggestions[i].Text, Fragment)
        /\ Fragment = <<>> =>
              suggestions = Accumulated(co, commands, flags, helpFlags, doc)

\* a non-empty fragment kept a dynamic suggestion that matches it only when case
\* is disregarded
C1_Witness ==
    /\ Resolved
    /\ ~co.SuggestionFilter
    /\ Fragment # <<>>
    /\ \E i \in 1..Len(suggestions) :
          /\ suggestions[i].Description = "fruit"
          /\ ~HasPrefix(suggestions[i].Text, Fragment)

\* C2: after a findSuggestions call that resolves to a node with persistence
\* disabled, every local and inherited flag of the node has its Changed bit
\* cleared and its value equal to its default.
C2_FlagsResetAfterResolve ==
    (Resolved /\ ~PersistOn) =>
        \A f \in FlagsOfNode(resolved) :
            ~flags[f].changed /\ flags[f].value = FlagDefValue(f)

\* C3: a findSuggestions call made while the persistence flag is true leaves the
\* value of every flag as it was; a call changes a flag's value only when the
\* persistence flag is false or absent, and then to the flag's default.
C3_PersistKeepsValues ==
    [][ /\ PersistOn => \A f \in FlagIds : flags'[f].value = flags[f].value
        /\ \A f \in FlagIds :
              flags'[f].value # flags[f].value =>
                  ~PersistOn /\ flags'[f].value = FlagDefValue(f) ]_vars

\* the children of the root that are not hidden, or all of them when
\* ShowHiddenCommands, as suggestions in the tree's child order
VisibleRootChildren ==
    LET vis == SelectSeq(Children(commands, RootCmd),
                         LAMBDA c : ~CmdHidden(c) \/ co.ShowHiddenCommands)
    IN  [i \in 1..Len(vis) |-> [Text |-> CmdName(vis[i]), Description |-> CmdShort(vis[i])]]

\* C4: on an empty line, with no custom filter (the root carries no dynamic
\* annotation), findSuggestions returns exactly the root's visible child commands,
\* a child being visible when it is not hidden or ShowHiddenCommands is enabled.
C4_EmptyLineRootChildren ==
    (Resolved /\ doc.text = <<>> /\ ~co.SuggestionFilter) =>
        suggestions = VisibleRootChildren

\* the document is "cmd frag": the name of a child of the root, one space, a
\* fragment, the cursor at the end
CmdFragDoc ==
    LET ws == Fields(doc.text)
    IN  /\ Len(ws) = 2
        /\ doc.text = Join(ws)
        /\ doc.cursor = Len(doc.text)
        /\ findNext(commands, RootCmd, ws[1]) # ""

CmdOfDoc == findNext(commands, RootCmd, Fields(doc.text)[1])

\* C5: on a line "cmd frag" under the default filter: when frag starts with "--",
\* every visible flag of cmd whose "--name" frag is a case-insensitive prefix of
\* is suggested as "--name" and no command name is suggested; when frag starts
\* with a single "-", what is suggested is exactly the "-shorthand" of the visible
\* flags that have a shorthand and match frag; when frag has no dash, no
\* suggestion is a flag.
C5_FlagsPrefixGated ==
    (Resolved /\ ~co.SuggestionFilter /\ CmdFragDoc) =>
        /\ HasPrefix(Fragment, <<Dash, Dash>>) =>
              /\ \A f \in VisibleFlagsOfNode(CmdOfDoc) :
                    StartsWithFold(LongForm(f).Text, Fragment) => LongForm(f) \in Returned
              /\ \A g \in Returned : \A n \in commands : g.Text # CmdName(n)
        /\ (HasPrefix(Fragment, <<Dash>>) /\ ~HasPrefix(Fragment, <<Dash, Dash>>)) =>
              Returned = {ShortForm(f) : f \in
                            {h \in VisibleFlagsOfNode(CmdOfDoc) :
                                /\ FlagShorthand(h) # <<>>
                                /\ StartsWithFold(ShortForm(h).Text, Fragment)}}
        /\ ~HasPrefix(Fragment, <<Dash>>) =>
              \A g \in Returned : ~HasPrefix(g.Text, <<Dash>>)

\* "get --V" returned "--verbose"
C5_Witness ==
    /\ Resolved
    /\ ~co.SuggestionFilter
    /\ CmdFragDoc
    /\ Fragment = <<Dash, Dash, "V">>
    /\ LongForm("verbose") \in Returned

(***************************************************************************)
(* The tokenizer's property, checked under SpecTok.                        *)
(***************************************************************************)
\* C6: the default tokenizer returns a token sequence for every line, without
\* raising an error.
C6_TokenizerTotal ==
    (tokOut.called /\ ~co.InArgsParser) => ~tokOut.panic

(***************************************************************************)
(* Properties of the prompt loop, checked under Spec and FairSpec.         *)
(***************************************************************************)
\* the Executor has returned to the loop from a call on the line input
ExecutorReturned == pc = "loop" /\ "Tcsetattr" \in calls

\* the command the submitted line dispatches to, and whether none matches
Dispatched == Find(commands, flags, helpFlags, parseArgs(co, input).args)

\* C7: the Executor dispatches the submitted line to the command tree: when the
\* line matches a command that returns an error other than "unknown command", the
\* process is terminated if no OnErrorFunc is set, and OnErrorFunc is called if
\* one is set; when the line matches no command the loop is left running.
C7_DispatchOutcome ==
    ExecutorReturned =>
        /\ (~Dispatched.err /\ CmdFails(Dispatched.found) /\ ~co.OnErrorFunc) =>
              proc = "exited"
        /\ (~Dispatched.err /\ CmdFails(Dispatched.found) /\ co.OnErrorFunc) =>
              "OnErrorFunc" \in calls
        /\ Dispatched.err => proc = "running"

\* what a completer that resolves against the command tree returns
completerResolving(c, cmds, fl, hf, d) ==
    findSuggestions(c, cmds, fl, hf, merged, d).suggestions

\* C8: while the loop runs, the suggestions the completer callback returned for
\* the renderer's document are those findSuggestions computes for RootCmd's
\* commands and flags under the session configuration.
C8_CompleterResolves ==
    pc = "loop" =>
        suggestions = completerResolving(co, commands, flags, helpFlags, doc)

\* the Executor is past the restore of the terminal: its body runs
InBody == pc \in {"body", "spawn", "wait"}

\* C9: in every Executor call the terminal has the attributes of the snapshot
\* while the body runs; the snapshot is the terminal's attributes at bootstrap and
\* is not written again; a failed restore panics before the body starts.
C9_RestoreBeforeBody ==
    [][ /\ InBody' => (termios' = originalTermios' /\ originalTermios' \in BootModes)
        /\ (pc = "start" /\ pc' = "loop") => originalTermios' = termios
        /\ pc # "start" => originalTermios' = originalTermios
        /\ (pc = "exec" /\ proc' = "panicked") => (pc' = "exec" /\ calls' = {}) ]_vars

\* the long-running branch waits with the terminal restored to the snapshot
C9_Witness ==
    /\ pc = "wait"
    /\ worker > 0
    /\ termios = originalTermios
    /\ originalTermios \in BootModes

\* C10: while the Executor runs the long-running branch, once an interrupt signal
\* is on the branch's channel the Executor eventually returns to the loop; only
\* the line "test" enters the long-running branch.
C10_InterruptReturns ==
    /\ (pc \in {"spawn", "wait"} /\ sigc = "signal") ~> (pc = "loop")
    /\ [](pc \in {"spawn", "wait"} => input = TestInput)

\* the caller waits, the watcher selects, and a signal is on the channel
C10_Witness ==
    /\ pc = "wait"
    /\ watcher = "select"
    /\ worker > 0
    /\ ~ctxDone
    /\ sigc = "signal"

====
